---- MODULE Spec2Model ----
(***************************************************************************)
(* Model of exec::system_scheduler, exec::system_sender and                *)
(* exec::system_bulk_sender (include/exec/system_context.hpp).             *)
(*                                                                         *)
(* The generic layer is translated from the header.  The backend behind    *)
(* the __exec_system_*_interface pointers is not part of the header; it is *)
(* modelled from the backend contract: a factory may return no object, a   *)
(* started abstract operation state invokes exactly one entry of the       *)
(* receiver shim once, and a bulk operation invokes the per-index function *)
(* on indices of [0, count) in any order before it completes with value.   *)
(***************************************************************************)
EXTENDS Integers, Sequences, FiniteSets, Bags, TLC

VARIABLES
  phase,            \* per operation: "none", "built", "connected", "started"
  kind,             \* per operation: "none", "single" (system_sender), "bulk"
  sender_impl_,     \* system_sender::__sender_impl_
  scheduler_impl_,  \* system_bulk_sender::__scheduler_impl_
  size_,            \* system_bulk_sender::__size_
  os_,              \* __op::__os_ / __bulk_state::__os_
  arguments_data_,  \* __bulk_state::__arguments_data_
  heap,             \* the free store: address -> FreeCell or the stored values
  recv_,            \* what the Receiver __recv_ of each operation has observed
  prevState,        \* the previous sender's operation state
  prevResult,       \* the completion the previous sender produced
  bk,               \* backend: the abstract operation state made for each operation
  bklog,            \* backend: the interface calls the generic layer made, per operation
  fnlog,            \* per operation: bag of <<index, values>> passed to __fun_
  running,          \* per operation: per-index invocations that have not returned
  fault,            \* NoFault, or the operation whose call through a null pointer crashed
  impl_,            \* system_context::__impl_ of each context object
  handle,           \* the system_scheduler objects: NoHandle or [ref, from]
  cmp,              \* the last operator== evaluated: NoCmp or [lhs, rhs, result]
  life,             \* single_thread_context: lifetime of each context object
  loop_,            \* single_thread_context::loop_: [stop, queue, runner]
  thread_,          \* single_thread_context::thread_: [st, target]
  dlog,             \* the calls ~single_thread_context has made so far, in order
  ran               \* the last task each loop executed and the thread it ran on

opVars == <<phase, kind, sender_impl_, scheduler_impl_, size_, os_, arguments_data_,
            heap, recv_, prevState, prevResult, bk, bklog, fnlog, running>>

facadeVars == <<impl_, handle, cmp>>

loopVars == <<life, loop_, thread_, dlog, ran>>

sideVars == <<facadeVars, loopVars>>

vars == <<opVars, fault, sideVars>>

(* ---------------------------------------------------------------------- *)
(* Bounds and domains                                                      *)
(* ---------------------------------------------------------------------- *)
MaxSize == 2

Ops == {"opA", "opB"}
AddrOrder == <<"bufA", "bufB">>
Addrs == {AddrOrder[i] : i \in 1 .. Len(AddrOrder)}
Values == {"v1", "v2"}
Errors == {"e1", "e2"}
Sizes == 0 .. MaxSize

NULL == "nullptr"
NoPayload == "none"
Garbage == "garbage"
FreeCell == "free"
TheScheduler == "sched"
TheSender == "snd"
TheOs == "os"
NoResult == [sig |-> "none", payload |-> NoPayload]
SchedulerRefs == {NULL, TheScheduler}
Availability == {"ok", "nosender", "noos"}
UBOutcomes == {"crash", "continue"}
Conventions == {"value", "address"}

NoFault == "none"

Ctxs == {"ctxA", "ctxB"}
Handles == {"h1", "h2", "h3"}
DefaultImpl == "default_impl"
OtherScheduler == "other_sched"
NoImpl == "unconstructed"
NoHandle == [ref |-> NULL, from |-> "none"]
NoCmp == [lhs |-> NoHandle, rhs |-> NoHandle, result |-> FALSE]

NoBk == [st |-> "none", count |-> 0, fnstate |-> NULL, cpp_recv |-> NULL,
         begun |-> {}, entry |-> "none", payload |-> NoPayload]

(* ---------------------------------------------------------------------- *)
(* Generic layer: small pieces of the header                               *)
(* ---------------------------------------------------------------------- *)

\* mutant: the argument buffer is taken when the state is constructed
InitialArgumentsData_Eager == AddrOrder[1]

\* void* __arguments_data_{nullptr};
InitialArgumentsData == NULL

\* mutant: the bulk state is constructed with an abstract operation state
InitialOs_Materialized == TheOs

\* __if::__exec_system_operation_state_interface* __os_{nullptr};
InitialOs == NULL

\* mutant: the count covers the closed range [0, __size]
BulkCount_Closed(o) == size_[o] + 1

\* the count handed to __sched->bulk(__self.__state_.__snd_.__size_, __fn)
BulkCount(o) == size_[o]

\* mutant: the arguments are kept in one static buffer
NewAddr_Static == AddrOrder[1]

\* new std::tuple<__As...>{__as...}: a fresh cell of the free store
NewAddr ==
  AddrOrder[CHOOSE i \in 1 .. Len(AddrOrder) :
              /\ heap[AddrOrder[i]] = FreeCell
              /\ \A j \in 1 .. (i - 1) : heap[AddrOrder[j]] # FreeCell]

\* a member call through a null pointer is undefined: the process crashes, or
\* the call has no effect and execution continues
Crash(o, ub) == IF ub = "crash" THEN o ELSE NoFault

\* mutant: every shim completes the receiver of the first operation state
ReceiverOf_First(cpp_recv) == "opA"

\* the receiver a completion function is applied to, given the void* __cpp_recv
ReceiverOf(cpp_recv) == cpp_recv

\* stdexec::set_value / set_stopped / set_error on the Receiver r
Observe(r, sig, payload) ==
  [recv_ EXCEPT ![r] = Append(@, [sig |-> sig, payload |-> payload])]

\* the void* the backend hands to the shim's error entry for exception e
ErrWord(e, conv) == [tag |-> IF conv = "value" THEN "exc" ELSE "addr", e |-> e]

\* system_sender shim: *reinterpret_cast<std::exception_ptr*>(&__exception)
SingleShimPayload(w) == IF w.tag = "exc" THEN w.e ELSE Garbage

\* bulk shim: *static_cast<std::exception_ptr*>(__exception)
BulkShimPayload(w) == IF w.tag = "addr" THEN w.e ELSE Garbage

\* mutant: the trampoline reads one buffer shared by all bulk states
TrampolineArgs_Shared(s) == heap[AddrOrder[1]]

\* the values the per-index trampoline re-derives from __state->__arguments_data_
TrampolineArgs(s) ==
  IF arguments_data_[s] = NULL \/ heap[arguments_data_[s]] = FreeCell
  THEN Garbage
  ELSE heap[arguments_data_[s]]

(* ---------------------------------------------------------------------- *)
(* Backend (from the backend contract)                                     *)
(* ---------------------------------------------------------------------- *)
BackendStart(b, o) == [b EXCEPT ![o].st = "started"]

Log(l, o, calls) == [l EXCEPT ![o] = @ \o calls]

(* ---------------------------------------------------------------------- *)
(* Initial state                                                           *)
\* the single_thread_context objects
STCs == {"stcA", "stcB"}

\* the most tasks a loop holds at once
MaxQueue == 2

\* the tasks callers post through get_scheduler()
Tasks == {"t1", "t2"}

\* a manual_event_loop that has not been constructed
NoLoop == [stop |-> FALSE, queue |-> << >>, runner |-> "none"]

\* a std::thread that has not been constructed
NoThread == [st |-> "none", target |-> "none"]

\* no task executed yet
NoRan == [task |-> "none", on |-> "none"]

(* ---------------------------------------------------------------------- *)
Init ==
  /\ phase = [o \in Ops |-> "none"]
  /\ kind = [o \in Ops |-> "none"]
  /\ sender_impl_ = [o \in Ops |-> NULL]
  /\ scheduler_impl_ = [o \in Ops |-> NULL]
  /\ size_ = [o \in Ops |-> 0]
  /\ os_ = [o \in Ops |-> NULL]
  /\ arguments_data_ = [o \in Ops |-> NULL]
  /\ heap = [a \in Addrs |-> FreeCell]
  /\ recv_ = [o \in Ops |-> << >>]
  /\ prevState = [o \in Ops |-> "none"]
  /\ prevResult = [o \in Ops |-> NoResult]
  /\ bk = [o \in Ops |-> NoBk]
  /\ bklog = [o \in Ops |-> << >>]
  /\ fnlog = [o \in Ops |-> EmptyBag]
  /\ running = [o \in Ops |-> {}]
  /\ fault = NoFault
  /\ impl_ = [c \in Ctxs |-> NoImpl]
  /\ handle = [x \in Handles |-> NoHandle]
  /\ cmp = NoCmp
  /\ life = [c \in STCs |-> "none"]
  /\ loop_ = [c \in STCs |-> NoLoop]
  /\ thread_ = [c \in STCs |-> NoThread]
  /\ dlog = [c \in STCs |-> << >>]
  /\ ran = [c \in STCs |-> NoRan]

(* ---------------------------------------------------------------------- *)
(* Scheduler Handle: schedule and bulk                                     *)
(* ---------------------------------------------------------------------- *)

\* the backend calls tag_invoke(schedule_t) makes
ScheduleCalls == <<"schedule">>

\* mutant: bulk() asks the backend for the bulk sender when it is called
BulkCalls_Eager == <<"bulk">>

\* the backend calls tag_invoke(bulk_t) makes
BulkCalls == << >>

\* tag_invoke(stdexec::schedule_t, const system_scheduler&):
\*   system_sender(sched.__scheduler_interface_->schedule())
\* h is the handle's __scheduler_interface_, r what the backend's factory returns.
Schedule(o, h, r, ub) ==
  /\ fault = NoFault
  /\ UNCHANGED sideVars
  /\ phase[o] = "none"
  /\ IF h = NULL
     THEN \* member call through a null pointer
          /\ fault' = Crash(o, ub)
          /\ sender_impl_' = [sender_impl_ EXCEPT ![o] = NULL]
          /\ UNCHANGED bklog
     ELSE /\ sender_impl_' = [sender_impl_ EXCEPT ![o] = r]
          /\ bklog' = Log(bklog, o, ScheduleCalls)
          /\ UNCHANGED fault
  /\ phase' = [phase EXCEPT ![o] = "built"]
  /\ kind' = [kind EXCEPT ![o] = "single"]
  /\ UNCHANGED <<scheduler_impl_, size_, os_, arguments_data_, heap, recv_,
                 prevState, prevResult, bk, fnlog, running>>

\* tag_invoke(stdexec::bulk_t, __self, __previous, __size, __fun):
\*   system_bulk_sender{__self.__scheduler_interface_, __previous, __size, __fun}
Bulk(o, h, n) ==
  /\ fault = NoFault
  /\ UNCHANGED sideVars
  /\ phase[o] = "none"
  /\ scheduler_impl_' = [scheduler_impl_ EXCEPT ![o] = h]
  /\ size_' = [size_ EXCEPT ![o] = n]
  /\ bklog' = Log(bklog, o, BulkCalls)
  /\ phase' = [phase EXCEPT ![o] = "built"]
  /\ kind' = [kind EXCEPT ![o] = "bulk"]
  /\ UNCHANGED <<sender_impl_, os_, arguments_data_, heap, recv_,
                 prevState, prevResult, bk, fnlog, running, fault>>

(* ---------------------------------------------------------------------- *)
(* system_sender: connect and start                                        *)
(* ---------------------------------------------------------------------- *)

\* tag_invoke(connect_t, system_sender&&, __R&&): builds the shim over
\* &__op.__recv_ and returns __op.__snd_.__sender_impl_->connect(shim) as __os_.
\* r is what the backend's connect returns.
ConnectSingle(o, r, ub) ==
  /\ fault = NoFault
  /\ UNCHANGED sideVars
  /\ phase[o] = "built" /\ kind[o] = "single"
  /\ IF sender_impl_[o] = NULL
     THEN \* member call through a null pointer
          /\ fault' = Crash(o, ub)
          /\ os_' = [os_ EXCEPT ![o] = NULL]
          /\ UNCHANGED <<bk, bklog>>
     ELSE /\ os_' = [os_ EXCEPT ![o] = r]
          /\ bk' = [bk EXCEPT ![o] = IF r = NULL THEN NoBk
                       ELSE [NoBk EXCEPT !.st = "connected", !.cpp_recv = o]]
          /\ bklog' = Log(bklog, o, <<"connect">>)
          /\ UNCHANGED fault
  /\ phase' = [phase EXCEPT ![o] = "connected"]
  /\ UNCHANGED <<kind, sender_impl_, scheduler_impl_, size_, arguments_data_, heap,
                 recv_, prevState, prevResult, fnlog, running>>

\* tag_invoke(start_t, __op&): if (auto __os = __op_v.__os_) __os->start();
StartSingle(o) ==
  /\ fault = NoFault
  /\ UNCHANGED sideVars
  /\ phase[o] = "connected" /\ kind[o] = "single"
  /\ IF os_[o] # NULL
     THEN /\ bk' = BackendStart(bk, o)
          /\ bklog' = Log(bklog, o, <<"start">>)
     ELSE UNCHANGED <<bk, bklog>>
  /\ phase' = [phase EXCEPT ![o] = "started"]
  /\ UNCHANGED <<kind, sender_impl_, scheduler_impl_, size_, os_, arguments_data_,
                 heap, recv_, prevState, prevResult, fnlog, running, fault>>

(* ---------------------------------------------------------------------- *)
(* system_bulk_sender: connect, the intermediate receiver, start           *)
(* ---------------------------------------------------------------------- *)

\* tag_invoke(connect_t, system_bulk_sender&&, __R&&): constructs __bulk_op, whose
\* __state_ holds the sender and the receiver with __arguments_data_ and __os_
\* at their defaults, and connects __previous_ to the intermediate receiver.
ConnectBulk(o) ==
  /\ fault = NoFault
  /\ UNCHANGED sideVars
  /\ phase[o] = "built" /\ kind[o] = "bulk"
  /\ arguments_data_' = [arguments_data_ EXCEPT ![o] = InitialArgumentsData]
  /\ os_' = [os_ EXCEPT ![o] = InitialOs]
  /\ prevState' = [prevState EXCEPT ![o] = "connected"]
  /\ phase' = [phase EXCEPT ![o] = "connected"]
  /\ UNCHANGED <<kind, sender_impl_, scheduler_impl_, size_, heap, recv_,
                 prevResult, bk, bklog, fnlog, running, fault>>

\* the completions the previous sender may produce
PrevCompletions ==
  [sig : {"value"}, payload : Values] \cup
  [sig : {"stopped"}, payload : {NoPayload}] \cup
  [sig : {"error"}, payload : Errors]

\* __bulk_intermediate_receiver, tag_invoke(set_value_t, ...): the arguments are
\* copied to the free store and stored in the state; with a scheduler, the bulk
\* sender is made, connected to the shim over &__state_.__recv_, and started.
\* avail is what the backend's factories return, ub the outcome of a call
\* through a null pointer; b0 and l0 are the backend state the call starts from.
IntermediateSetValue(o, v, avail, ub, b0, l0) ==
  /\ heap' = [heap EXCEPT ![NewAddr] = v]
  /\ arguments_data_' = [arguments_data_ EXCEPT ![o] = NewAddr]
  /\ UNCHANGED recv_
  /\ IF scheduler_impl_[o] = NULL
     THEN /\ bk' = b0 /\ bklog' = l0
          /\ UNCHANGED <<os_, fault>>
     ELSE CASE avail = "nosender" ->
                 \* __sender is null: __sender->connect(...)
                 /\ bk' = b0
                 /\ bklog' = Log(l0, o, <<"bulk">>)
                 /\ fault' = Crash(o, ub)
                 /\ UNCHANGED os_
            [] avail = "noos" ->
                 \* __os_ is null: __os_->start()
                 /\ bk' = b0
                 /\ bklog' = Log(l0, o, <<"bulk", "connect">>)
                 /\ os_' = [os_ EXCEPT ![o] = NULL]
                 /\ fault' = Crash(o, ub)
            [] OTHER ->
                 /\ bk' = [b0 EXCEPT ![o] = [NoBk EXCEPT !.st = "started",
                                                         !.count = BulkCount(o),
                                                         !.fnstate = o,
                                                         !.cpp_recv = o]]
                 /\ bklog' = Log(l0, o, <<"bulk", "connect", "start">>)
                 /\ os_' = [os_ EXCEPT ![o] = TheOs]
                 /\ UNCHANGED fault

\* mutant: the stopped path captures (empty) arguments as the value path does
IntermediateSetStopped_Capturing(o, b0, l0) ==
  /\ recv_' = Observe(o, "stopped", NoPayload)
  /\ heap' = [heap EXCEPT ![NewAddr] = NoPayload]
  /\ arguments_data_' = [arguments_data_ EXCEPT ![o] = NewAddr]
  /\ bk' = b0 /\ bklog' = l0
  /\ UNCHANGED <<os_, fault>>

\* tag_invoke(set_stopped_t, __bulk_intermediate_receiver&&)
IntermediateSetStopped(o, b0, l0) ==
  /\ recv_' = Observe(o, "stopped", NoPayload)
  /\ bk' = b0 /\ bklog' = l0
  /\ UNCHANGED <<heap, arguments_data_, os_, fault>>

\* mutant: an upstream error is forwarded without its payload
IntermediateSetError_NoPayload(o, e, b0, l0) ==
  /\ recv_' = Observe(o, "error", NoPayload)
  /\ bk' = b0 /\ bklog' = l0
  /\ UNCHANGED <<heap, arguments_data_, os_, fault>>

\* tag_invoke(set_error_t, __bulk_intermediate_receiver&&, std::exception_ptr)
IntermediateSetError(o, e, b0, l0) ==
  /\ recv_' = Observe(o, "error", e)
  /\ bk' = b0 /\ bklog' = l0
  /\ UNCHANGED <<heap, arguments_data_, os_, fault>>

\* the previous sender completes into the intermediate receiver with c
IntermediateReceiver(o, c, avail, ub, b0, l0) ==
  /\ prevState' = [prevState EXCEPT ![o] = "done"]
  /\ prevResult' = [prevResult EXCEPT ![o] = c]
  /\ CASE c.sig = "value" -> IntermediateSetValue(o, c.payload, avail, ub, b0, l0)
       [] c.sig = "stopped" -> IntermediateSetStopped(o, b0, l0)
       [] OTHER -> IntermediateSetError(o, c.payload, b0, l0)

\* does the outer start find an abstract operation state to start?
OuterStartFires(o) == os_[o] # NULL

\* tag_invoke(start_t, __bulk_op&): starts __state_.__os_ if it is set, then
\* starts the previous operation state, which may complete before start returns
\* (sync) or later.
StartBulk(o, sync, c, avail, ub) ==
  /\ fault = NoFault
  /\ UNCHANGED sideVars
  /\ phase[o] = "connected" /\ kind[o] = "bulk"
  /\ phase' = [phase EXCEPT ![o] = "started"]
  /\ LET b1 == IF OuterStartFires(o) THEN BackendStart(bk, o) ELSE bk
         l1 == IF OuterStartFires(o) THEN Log(bklog, o, <<"start">>) ELSE bklog
     IN IF sync
        THEN IntermediateReceiver(o, c, avail, ub, b1, l1)
        ELSE /\ prevState' = [prevState EXCEPT ![o] = "started"]
             /\ bk' = b1 /\ bklog' = l1
             /\ UNCHANGED <<prevResult, heap, arguments_data_, os_, recv_, fault>>
  /\ UNCHANGED <<kind, sender_impl_, scheduler_impl_, size_, fnlog, running>>

\* the previous sender completes after the outer start has returned
PrevComplete(o, c, avail, ub) ==
  /\ fault = NoFault
  /\ UNCHANGED sideVars
  /\ phase[o] = "started" /\ kind[o] = "bulk"
  /\ prevState[o] = "started"
  /\ IntermediateReceiver(o, c, avail, ub, bk, bklog)
  /\ UNCHANGED <<phase, kind, sender_impl_, scheduler_impl_, size_, fnlog, running>>

(* ---------------------------------------------------------------------- *)
(* The type-erased receiver shims and the per-index trampoline             *)
(* ---------------------------------------------------------------------- *)

\* mutant: the error entry of the shim calls set_stopped
ShimKind_ErrorAsStopped(entry) ==
  CASE entry = "value" -> "value"
    [] OTHER -> "stopped"

\* which generic completion each entry of the __exec_system_receiver calls
ShimKind(entry) ==
  CASE entry = "value" -> "value"
    [] entry = "stopped" -> "stopped"
    [] OTHER -> "error"

\* the shim built in system_sender's connect, called by the backend with w
SingleShim(cpp_recv, entry, w) ==
  Observe(ReceiverOf(cpp_recv), ShimKind(entry),
          IF entry = "error" THEN SingleShimPayload(w) ELSE NoPayload)

\* the shim built in the intermediate receiver's set_value
BulkShim(cpp_recv, entry, w) ==
  Observe(ReceiverOf(cpp_recv), ShimKind(entry),
          IF entry = "error" THEN BulkShimPayload(w) ELSE NoPayload)

\* the per-index function object: recovers the bulk state from the opaque state
\* pointer and calls __fun_(__idx, args...) with the captured arguments
Trampoline(state, idx) ==
  [fnlog EXCEPT ![state] = @ (+) SetToBag({<<idx, TrampolineArgs(state)>>})]

(* ---------------------------------------------------------------------- *)
(* Backend steps (from the backend contract)                               *)
(* ---------------------------------------------------------------------- *)

\* a started single-work operation state completes through one shim entry
BackendCompleteSingle(o, entry, e, conv) ==
  /\ fault = NoFault
  /\ UNCHANGED sideVars
  /\ kind[o] = "single" /\ bk[o].st = "started"
  /\ bk' = [bk EXCEPT ![o].st = "completed", ![o].entry = entry,
                       ![o].payload = IF entry = "error" THEN e ELSE NoPayload]
  /\ recv_' = SingleShim(bk[o].cpp_recv, entry, ErrWord(e, conv))
  /\ UNCHANGED <<phase, kind, sender_impl_, scheduler_impl_, size_, os_,
                 arguments_data_, heap, prevState, prevResult, bklog, fnlog,
                 running, fault>>

\* a started bulk operation state invokes the per-index function on an index
\* of [0, count) it has not yet begun
BackendInvokeBegin(o, i) ==
  /\ fault = NoFault
  /\ UNCHANGED sideVars
  /\ kind[o] = "bulk" /\ bk[o].st = "started"
  /\ i \in (0 .. (bk[o].count - 1)) \ bk[o].begun
  /\ bk' = [bk EXCEPT ![o].begun = @ \cup {i}]
  /\ running' = [running EXCEPT ![o] = @ \cup {i}]
  /\ fnlog' = Trampoline(bk[o].fnstate, i)
  /\ UNCHANGED <<phase, kind, sender_impl_, scheduler_impl_, size_, os_,
                 arguments_data_, heap, recv_, prevState, prevResult, bklog, fault>>

\* a per-index invocation returns
BackendInvokeReturn(o, i) ==
  /\ fault = NoFault
  /\ UNCHANGED sideVars
  /\ i \in running[o]
  /\ running' = [running EXCEPT ![o] = @ \ {i}]
  /\ UNCHANGED <<phase, kind, sender_impl_, scheduler_impl_, size_, os_,
                 arguments_data_, heap, recv_, prevState, prevResult, bk, bklog,
                 fnlog, fault>>

\* a started bulk operation state completes through one shim entry: with value
\* once every index has run, with stopped or error possibly earlier
BackendCompleteBulk(o, entry, e, conv) ==
  /\ fault = NoFault
  /\ UNCHANGED sideVars
  /\ kind[o] = "bulk" /\ bk[o].st = "started"
  /\ running[o] = {}
  /\ entry = "value" => bk[o].begun = 0 .. (bk[o].count - 1)
  /\ bk' = [bk EXCEPT ![o].st = "completed", ![o].entry = entry,
                       ![o].payload = IF entry = "error" THEN e ELSE NoPayload]
  /\ recv_' = BulkShim(bk[o].cpp_recv, entry, ErrWord(e, conv))
  /\ UNCHANGED <<phase, kind, sender_impl_, scheduler_impl_, size_, os_,
                 arguments_data_, heap, prevState, prevResult, bklog, fnlog,
                 running, fault>>

\* what the backend tells the shim: value and stopped carry nothing
BackendCompletions ==
  {<<"value", "e1", "value">>, <<"stopped", "e1", "value">>} \cup
  {<<"error", e, conv>> : e \in Errors, conv \in Conventions}

(* ---------------------------------------------------------------------- *)
(* Specification                                                           *)
(* ---------------------------------------------------------------------- *)
Next ==
  \/ \E o \in Ops, h \in SchedulerRefs, r \in {NULL, TheSender}, ub \in UBOutcomes :
       Schedule(o, h, r, ub)
  \/ \E o \in Ops, h \in SchedulerRefs, n \in Sizes : Bulk(o, h, n)
  \/ \E o \in Ops, r \in {NULL, TheOs}, ub \in UBOutcomes : ConnectSingle(o, r, ub)
  \/ \E o \in Ops : StartSingle(o)
  \/ \E o \in Ops : ConnectBulk(o)
  \/ \E o \in Ops, sync \in BOOLEAN, c \in PrevCompletions,
        avail \in Availability, ub \in UBOutcomes : StartBulk(o, sync, c, avail, ub)
  \/ \E o \in Ops, c \in PrevCompletions, avail \in Availability, ub \in UBOutcomes :
       PrevComplete(o, c, avail, ub)
  \/ \E o \in Ops, x \in BackendCompletions : BackendCompleteSingle(o, x[1], x[2], x[3])
  \/ \E o \in Ops, i \in Sizes : BackendInvokeBegin(o, i)
  \/ \E o \in Ops, i \in Sizes : BackendInvokeReturn(o, i)
  \/ \E o \in Ops, x \in BackendCompletions : BackendCompleteBulk(o, x[1], x[2], x[3])

Spec == Init /\ [][Next]_vars

(* ---------------------------------------------------------------------- *)
(* Vocabulary of the properties                                            *)
(* ---------------------------------------------------------------------- *)
Signals(o) == {recv_[o][k].sig : k \in 1 .. Len(recv_[o])}

\* number of times __fun_ of operation o was called with index i
Invocations(o, i) ==
  LET hits == {x \in BagToSet(fnlog[o]) : x[1] = i}
      RECURSIVE Sum(_)
      Sum(S) == IF S = {} THEN 0
                ELSE LET x == CHOOSE y \in S : TRUE
                     IN CopiesIn(x, fnlog[o]) + Sum(S \ {x})
  IN Sum(hits)

AllIndices == 0 .. (MaxSize + 1)

\* a started operation for which no step of the backend or of the previous
\* sender is outstanding: nothing more will ever happen to it
Settled(o) ==
  /\ phase[o] = "started"
  /\ fault = NoFault
  /\ bk[o].st # "started"
  /\ kind[o] = "bulk" => prevState[o] = "done"

\* the captured-argument buffer of o is allocated and not released
BufferLive(o) ==
  /\ arguments_data_[o] # NULL
  /\ heap[arguments_data_[o]] # FreeCell

\* the backend was not available when the previous sender completed with value
Unavailable(o) ==
  \/ scheduler_impl_[o] = NULL
  \/ bklog[o] = <<"bulk">>
  \/ bklog[o] = <<"bulk", "connect">>

(* ---------------------------------------------------------------------- *)
(* C1                                                                      *)
(* ---------------------------------------------------------------------- *)

\* C1: a connected and started operation state (single-work or bulk) never
\* delivers more than one completion signal to its Receiver, and once nothing
\* is outstanding for it, it has delivered exactly one.
C1_ExactlyOnce ==
  \A o \in Ops :
    /\ Len(recv_[o]) <= 1
    /\ Settled(o) => Len(recv_[o]) = 1

(* ---------------------------------------------------------------------- *)
(* C2                                                                      *)
(* ---------------------------------------------------------------------- *)

\* C2: after the previous stage of a bulk operation of size N completed with
\* value, the per-index function is called at most once per index and only on
\* indices of [0, N); a value completion of the outer Receiver comes only after
\* every index of [0, N) was called exactly once and has returned; and once
\* nothing is outstanding the outer completion has fired (also for N = 0).
C2_FanOutComplete ==
  \A o \in Ops :
    (kind[o] = "bulk" /\ prevResult[o].sig = "value") =>
      /\ \A i \in AllIndices :
           Invocations(o, i) <= (IF i < size_[o] THEN 1 ELSE 0)
      /\ "value" \in Signals(o) =>
           /\ \A i \in 0 .. (size_[o] - 1) : Invocations(o, i) = 1
           /\ running[o] = {}
      /\ Settled(o) => Len(recv_[o]) = 1

(* ---------------------------------------------------------------------- *)
(* C3                                                                      *)
(* ---------------------------------------------------------------------- *)

\* C3: when the previous stage of a bulk operation completed with stopped or
\* with error(E), the per-index function has not been called, nothing was handed
\* to the backend, and the outer Receiver has observed exactly that signal with
\* the same payload, once.
C3_ShortCircuit ==
  \A o \in Ops :
    (kind[o] = "bulk" /\ prevResult[o].sig \in {"stopped", "error"}) =>
      /\ fnlog[o] = EmptyBag
      /\ bk[o] = NoBk
      /\ recv_[o] = <<prevResult[o]>>

\* C3 witness: some previous stage failed with an error payload and another (or
\* the same) case stopped
C3_Witness ==
  \E o \in Ops : kind[o] = "bulk" /\ prevResult[o] = [sig |-> "error", payload |-> "e2"]

(* ---------------------------------------------------------------------- *)
(* C4                                                                      *)
(* ---------------------------------------------------------------------- *)

\* C4: every per-index invocation of a bulk operation was passed the values its
\* own previous stage completed with.
C4_ArgumentSharing ==
  \A o \in Ops :
    \A x \in BagToSet(fnlog[o]) :
      /\ prevResult[o].sig = "value"
      /\ x[2] = prevResult[o].payload

\* C4 witness: two bulk operations with different captured values have each
\* had a per-index invocation, one of them at least two
C4_Witness ==
  \E o, q \in Ops :
    /\ o # q
    /\ Cardinality(BagToSet(fnlog[o])) >= 2
    /\ fnlog[q] # EmptyBag
    /\ prevResult[o].payload # prevResult[q].payload

(* ---------------------------------------------------------------------- *)
(* C5                                                                      *)
(* ---------------------------------------------------------------------- *)

\* C5: a captured-argument buffer exists only for a bulk operation whose
\* previous stage has completed with value, and it is allocated and not
\* released while any per-index invocation is running.
C5_BufferLifetime ==
  /\ \A o \in Ops :
       /\ arguments_data_[o] # NULL =>
            kind[o] = "bulk" /\ prevResult[o].sig = "value"
       /\ running[o] # {} => BufferLive(o)
  /\ \A a \in Addrs :
       heap[a] # FreeCell =>
         \E o \in Ops : arguments_data_[o] = a /\ prevResult[o].sig = "value"

\* C5 witness: a per-index invocation is running
C5_Witness == \E o \in Ops : running[o] # {} /\ BufferLive(o)

(* ---------------------------------------------------------------------- *)
(* C6                                                                      *)
(* ---------------------------------------------------------------------- *)

\* C6: once the outer completion of a bulk operation whose previous stage
\* completed with value has been delivered, its captured-argument buffer is no
\* longer allocated.
C6_BufferReleased ==
  \A o \in Ops :
    (kind[o] = "bulk" /\ prevResult[o].sig = "value" /\ Len(recv_[o]) >= 1) =>
      ~BufferLive(o)

(* ---------------------------------------------------------------------- *)
(* C7                                                                      *)
(* ---------------------------------------------------------------------- *)

\* C7: for a connected single-work operation whose abstract work object is
\* null (no abstract sender, or no abstract operation state), connect and start
\* cause no fault, the backend's start is not called, and the Receiver observes
\* nothing.
C7_NullWorkObjectNoOp ==
  \A o \in Ops :
    (/\ kind[o] = "single"
     /\ phase[o] \in {"connected", "started"}
     /\ (sender_impl_[o] = NULL \/ os_[o] = NULL)) =>
      /\ fault # o
      /\ \A k \in 1 .. Len(bklog[o]) : bklog[o][k] # "start"
      /\ recv_[o] = << >>

(* ---------------------------------------------------------------------- *)
(* C8                                                                      *)
(* ---------------------------------------------------------------------- *)

\* C8: for a bulk operation whose backend was unavailable when the previous
\* stage completed with value (null scheduler reference, null bulk sender, or
\* null operation state), nothing happens: no fault, no per-index call, no
\* backend start, no completion signal.
C8_SilentDrop ==
  \A o \in Ops :
    (kind[o] = "bulk" /\ prevResult[o].sig = "value" /\ Unavailable(o)) =>
      /\ fault # o
      /\ fnlog[o] = EmptyBag
      /\ bk[o].st = "none"
      /\ recv_[o] = << >>

(* ---------------------------------------------------------------------- *)
(* C9                                                                      *)
(* ---------------------------------------------------------------------- *)

\* C9: until a computation is connected and started, no operation of the
\* backend has been invoked for it and no backend state exists for it.
C9_PureConstruction ==
  \A o \in Ops :
    phase[o] # "started" => (bklog[o] = << >> /\ bk[o] = NoBk)

\* C9 (amended): bulk() invokes nothing of the backend; schedule() invokes only
\* the scheduler's schedule factory and connect of a single-work computation only
\* the abstract sender's connect; before start, no abstract operation state is
\* started, no per-index function runs and no completion is delivered.
C9_ConstructionEffects ==
  \A o \in Ops :
    /\ phase[o] = "none" => (bklog[o] = << >> /\ bk[o] = NoBk)
    /\ (phase[o] = "built" /\ kind[o] = "bulk") => (bklog[o] = << >> /\ bk[o] = NoBk)
    /\ (phase[o] = "connected" /\ kind[o] = "bulk") => (bklog[o] = << >> /\ bk[o] = NoBk)
    /\ (phase[o] = "built" /\ kind[o] = "single") =>
         (bklog[o] \in {<< >>, <<"schedule">>} /\ bk[o] = NoBk)
    /\ (phase[o] = "connected" /\ kind[o] = "single") =>
         bklog[o] \in {<< >>, <<"schedule">>, <<"schedule", "connect">>}
    /\ phase[o] # "started" =>
         /\ bk[o].st \in {"none", "connected"}
         /\ recv_[o] = << >>
         /\ fnlog[o] = EmptyBag

\* C9 witness: a bulk computation over a live scheduler has been built and
\* connected but not started, and a single-work computation has been built
C9_Witness ==
  \E o, q \in Ops :
    /\ kind[o] = "bulk" /\ phase[o] = "connected" /\ scheduler_impl_[o] # NULL
    /\ kind[q] = "single" /\ phase[q] = "built" /\ bklog[q] = <<"schedule">>

(* ---------------------------------------------------------------------- *)
(* C10                                                                     *)
(* ---------------------------------------------------------------------- *)

\* C10: the outer Receiver of a bulk operation observes stopped only when the
\* previous stage completed with stopped, and never once the bulk stage has
\* been handed to the backend.
C10_OnlyUpstreamStopped ==
  \A o \in Ops :
    (kind[o] = "bulk" /\ "stopped" \in Signals(o)) =>
      /\ prevResult[o].sig = "stopped"
      /\ bk[o].st = "none"

\* C10 (amended): the outer Receiver of a bulk operation observes stopped only
\* when the previous stage completed with stopped or when the backend called
\* the stopped entry of the bulk stage's receiver shim; the generic layer never
\* turns a value or an error into stopped.
C10_StoppedOrigins ==
  \A o \in Ops :
    (kind[o] = "bulk" /\ "stopped" \in Signals(o)) =>
      \/ prevResult[o].sig = "stopped" /\ bk[o].st = "none"
      \/ prevResult[o].sig = "value" /\ bk[o].st = "completed" /\ bk[o].entry = "stopped"

\* C10 witness: a dispatched bulk stage whose backend completed with error, and
\* one whose backend completed with stopped
C10_Witness ==
  \E o, q \in Ops :
    /\ kind[o] = "bulk" /\ bk[o].entry = "stopped" /\ "stopped" \in Signals(o)
    /\ kind[q] = "bulk" /\ bk[q].entry = "error" /\ "error" \in Signals(q)

(* ---------------------------------------------------------------------- *)
(* Execution Context facade and Scheduler Handle equality                  *)
(* ---------------------------------------------------------------------- *)

\* __system_context_default_impl::__get_exec_system_context_impl(): the
\* process-default backend
GetExecSystemContextImpl == DefaultImpl

\* __exec_system_context_interface::get_scheduler(): the backend's scheduler
BackendGetScheduler(impl) == TheScheduler

\* __exec_system_scheduler_interface::equals: identity of the scheduler
BackendEquals(this, rhs) == this = rhs

\* the scheduler references a caller can wrap in a handle
WrappableRefs == {NULL, TheScheduler, OtherScheduler}

\* mutant: operator== ignores the right-hand side
HandleEquals_Self(lhs, rhs) == BackendEquals(lhs, lhs)

\* system_scheduler::operator==:
\*   __scheduler_interface_->equals(__rhs.__scheduler_interface_)
HandleEquals(lhs, rhs) == BackendEquals(lhs, rhs)

\* system_context::system_context(): __impl_ = __get_exec_system_context_impl()
ContextConstruct(c) ==
  /\ fault = NoFault
  /\ impl_[c] = NoImpl
  /\ impl_' = [impl_ EXCEPT ![c] = GetExecSystemContextImpl]
  /\ UNCHANGED <<opVars, fault, handle, cmp, loopVars>>

\* system_context::get_scheduler(): system_scheduler{__impl_->get_scheduler()},
\* stored in the handle object x
GetScheduler(c, x) ==
  /\ fault = NoFault
  /\ impl_[c] # NoImpl
  /\ handle' = [handle EXCEPT ![x] = [ref |-> BackendGetScheduler(impl_[c]), from |-> c]]
  /\ UNCHANGED <<opVars, fault, impl_, cmp, loopVars>>

\* system_scheduler(__impl): the public constructor wraps any reference
WrapScheduler(x, ref) ==
  /\ fault = NoFault
  /\ handle' = [handle EXCEPT ![x] = [ref |-> ref, from |-> "ctor"]]
  /\ UNCHANGED <<opVars, fault, impl_, cmp, loopVars>>

\* x == y.  With a null reference in x the member call is undefined: a crash,
\* or any result g.
Compare(x, y, ub, g) ==
  /\ fault = NoFault
  /\ handle[x] # NoHandle /\ handle[y] # NoHandle
  /\ IF handle[x].ref = NULL
     THEN /\ fault' = Crash(x, ub)
          /\ cmp' = [lhs |-> handle[x], rhs |-> handle[y], result |-> g]
     ELSE /\ cmp' = [lhs |-> handle[x], rhs |-> handle[y],
                     result |-> HandleEquals(handle[x].ref, handle[y].ref)]
          /\ UNCHANGED fault
  /\ UNCHANGED <<opVars, impl_, handle, loopVars>>

NextFacade ==
  \/ \E c \in Ctxs : ContextConstruct(c)
  \/ \E c \in Ctxs, x \in Handles : GetScheduler(c, x)
  \/ \E x \in Handles, ref \in WrappableRefs : WrapScheduler(x, ref)
  \/ \E x, y \in Handles, ub \in UBOutcomes, g \in BOOLEAN : Compare(x, y, ub, g)

SpecFacade == Init /\ [][NextFacade]_vars

(* ---------------------------------------------------------------------- *)
(* C11                                                                     *)
(* ---------------------------------------------------------------------- *)

\* C11: two handles obtained from Execution Contexts compare equal exactly when
\* they were obtained from the same Execution Context.
C11_EqualIffSameContext ==
  (cmp # NoCmp /\ cmp.lhs.from \in Ctxs /\ cmp.rhs.from \in Ctxs) =>
    (cmp.result <=> (cmp.lhs.from = cmp.rhs.from))

\* C11 (amended): handles obtained from Execution Contexts compare equal, from
\* the same context or from distinct ones, since every context is a view of the
\* one process-default backend; and whenever the left handle wraps a scheduler,
\* the handles compare equal exactly when the backend's equals holds of the two
\* wrapped references, that is when they wrap the same scheduler.
C11_EqualIffSameScheduler ==
  cmp # NoCmp =>
    /\ (cmp.lhs.from \in Ctxs /\ cmp.rhs.from \in Ctxs) => cmp.result
    /\ cmp.lhs.ref # NULL => (cmp.result <=> (cmp.lhs.ref = cmp.rhs.ref))

\* C11 witness: handles of two distinct contexts have been compared, and found
\* equal
C11_Witness ==
  /\ cmp.lhs.from \in Ctxs /\ cmp.rhs.from \in Ctxs
  /\ cmp.lhs.from # cmp.rhs.from
  /\ cmp.result

(* ---------------------------------------------------------------------- *)
(* C12                                                                     *)
(* ---------------------------------------------------------------------- *)

\* number of times the generic layer called start() on the backend for o
Starts(o) == Cardinality({k \in 1 .. Len(bklog[o]) : bklog[o][k] = "start"})

\* C12: for a bulk operation, the abstract operation state of the bulk stage
\* exists only after the previous stage completed with value, and it has been
\* started exactly once, by the value callback right after bulk() and connect();
\* the outer start never starts it (no start precedes bulk() in the calls made),
\* and without such a state the backend's start is never called.
C12_BulkStartedOnce ==
  \A o \in Ops :
    kind[o] = "bulk" =>
      /\ bklog[o] \in {<< >>, <<"bulk">>, <<"bulk", "connect">>,
                       <<"bulk", "connect", "start">>}
      /\ os_[o] # NULL =>
           /\ prevResult[o].sig = "value"
           /\ bklog[o] = <<"bulk", "connect", "start">>
      /\ os_[o] = NULL => (Starts(o) = 0 /\ bk[o].st = "none")
      /\ prevResult[o].sig # "value" => Starts(o) = 0

\* C12 witness: the bulk stage of a started bulk operation has been started and
\* the backend has completed it
C12_Witness ==
  \E o \in Ops :
    /\ kind[o] = "bulk" /\ phase[o] = "started"
    /\ Starts(o) = 1 /\ bk[o].st = "completed"

(* ---------------------------------------------------------------------- *)
(* C13                                                                     *)
(* ---------------------------------------------------------------------- *)

\* C13: when the backend has called the value, stopped or error entry of the
\* shim of an operation (single-work or bulk stage), the Receiver stored in that
\* operation state has observed exactly that signal, an error with the backend's
\* failure payload; and a Receiver whose shim was not called and whose previous
\* stage did not stop or fail has observed nothing.
C13_ShimPreserves ==
  \A o \in Ops :
    /\ bk[o].st = "completed" =>
         recv_[o] = <<[sig |-> bk[o].entry, payload |-> bk[o].payload]>>
    /\ (bk[o].st # "completed" /\ prevResult[o].sig \notin {"stopped", "error"}) =>
         recv_[o] = << >>

(* ---------------------------------------------------------------------- *)
(* C14                                                                     *)
(* ---------------------------------------------------------------------- *)

\* in this state, what the backend was handed and the indices it has used agree
\* with __size_
SizeRespected ==
  \A o \in Ops :
    kind[o] = "bulk" =>
      /\ bk[o].st # "none" => bk[o].count = size_[o]
      /\ bk[o].begun \subseteq 0 .. (size_[o] - 1)
      /\ \A x \in BagToSet(fnlog[o]) : x[1] \in 0 .. (size_[o] - 1)
      /\ (bk[o].st = "completed" /\ bk[o].entry = "value") =>
           bk[o].begun = 0 .. (size_[o] - 1)

\* no step changes the __size_ of a bulk sender that has been built
SizeKept ==
  \A o \in Ops :
    (kind[o] = "bulk" /\ phase[o] # "none") => size_'[o] = size_[o]

ShortCircuits(o) ==
  /\ kind[o] = "bulk"
  /\ prevResult[o].sig = "none"
  /\ prevResult'[o].sig \in {"stopped", "error"}

\* in this state, nothing of the bulk stage of a short-circuited operation exists
BulkStageAbsent ==
  \A o \in Ops :
    (kind[o] = "bulk" /\ prevResult[o].sig \in {"stopped", "error"}) =>
      /\ arguments_data_[o] = NULL
      /\ \A a \in Addrs : heap[a] # FreeCell => \E q \in Ops : q # o /\ arguments_data_[q] = a
      /\ bklog[o] = << >>
      /\ os_[o] = NULL
      /\ running[o] = {}
      /\ Len(recv_[o]) = 1

\* the step in which the previous stage stops or fails adds one completion to
\* the outer Receiver of that operation and changes nothing else of the bulk
\* state, the free store or the backend
OnlyForwards ==
  \A o \in Ops :
    ShortCircuits(o) =>
      /\ Len(recv_'[o]) = Len(recv_[o]) + 1
      /\ \A q \in Ops \ {o} : recv_'[q] = recv_[q]
      /\ UNCHANGED <<heap, arguments_data_, os_, bk, bklog, fnlog, running, fault,
                     size_, scheduler_impl_, sender_impl_, sideVars>>

\* C15: when the previous stage of a bulk operation completes with stopped or
\* error, the bulk stage never runs: no argument buffer is allocated, the
\* backend's bulk factory is not called, the abstract operation state reference
\* stays null, and the only effect is one completion on the outer Receiver.
C15_NoBulkStage == [](BulkStageAbsent) /\ [][OnlyForwards]_vars

\* C15 witness: the previous stage of a bulk operation over a live scheduler
\* has stopped
C15_Witness ==
  \E o \in Ops :
    /\ kind[o] = "bulk" /\ scheduler_impl_[o] # NULL
    /\ prevResult[o].sig = "stopped"
    /\ recv_[o] = <<[sig |-> "stopped", payload |-> NoPayload]>>

(* ---------------------------------------------------------------------- *)
(* C16                                                                     *)
(* ---------------------------------------------------------------------- *)

\* in this state, a bulk state holds a buffer exactly if its previous stage has
\* completed with value
WrittenIffValue ==
  \A o \in Ops :
    kind[o] = "bulk" => (arguments_data_[o] # NULL <=> prevResult[o].sig = "value")

\* a step that changes __arguments_data_ of o is the value completion of o's
\* previous stage, taken while the reference is null, nothing has been handed
\* to the backend and no per-index invocation has begun; and no step changes
\* the contents of an allocated buffer
OnlyValueWrites ==
  /\ \A o \in Ops :
       arguments_data_'[o] # arguments_data_[o] =>
         /\ kind[o] = "bulk"
         /\ arguments_data_[o] = NULL
         /\ prevResult[o].sig = "none" /\ prevResult'[o].sig = "value"
         /\ bk[o].st = "none" /\ bklog[o] = << >>
         /\ running[o] = {} /\ fnlog[o] = EmptyBag
  /\ \A a \in Addrs : heap[a] # FreeCell => heap'[a] = heap[a]

\* C16: the captured-argument buffer reference of a bulk state is written once,
\* by the value completion of the previous stage and before the bulk stage is
\* handed to the backend; no other step, and no per-index invocation, writes
\* the reference or the buffer.
C16_WrittenOnce == [](WrittenIffValue) /\ [][OnlyValueWrites]_vars

\* C16 witness: two per-index invocations of one bulk operation are running at
\* once over its buffer
C16_Witness ==
  \E o \in Ops : Cardinality(running[o]) >= 2 /\ BufferLive(o)

(* ---------------------------------------------------------------------- *)
(* C17                                                                     *)
(* ---------------------------------------------------------------------- *)

\* in this state, what each bulk operation's function and Receiver have seen
\* comes from that operation alone
OwnEffects ==
  \A o \in Ops :
    kind[o] = "bulk" =>
      /\ bk[o].st # "none" => (bk[o].fnstate = o /\ bk[o].cpp_recv = o)
      /\ \A x \in BagToSet(fnlog[o]) :
           /\ x[1] \in bk[o].begun /\ x[1] < size_[o]
           /\ x[2] = heap[arguments_data_[o]]
           /\ CopiesIn(x, fnlog[o]) = 1
      /\ Cardinality(BagToSet(fnlog[o])) = Cardinality(bk[o].begun)
      /\ recv_[o] # << >> =>
           \/ prevResult[o].sig \in {"stopped", "error"}
           \/ bk[o].st = "completed" /\ recv_[o][1].sig = bk[o].entry

\* a step changes the Receiver log of q only if q's own previous stage or q's
\* own backend operation completes in it, and the function log of q only if
\* q's own backend operation begins an index in it
OwnSteps ==
  \A q \in Ops :
    /\ recv_'[q] # recv_[q] =>
         \/ prevResult'[q] # prevResult[q]
         \/ bk[q].st = "started" /\ bk'[q].st = "completed"
    /\ fnlog'[q] # fnlog[q] => bk'[q].begun # bk[q].begun

\* C17: two bulk operations running at once on the same scheduler do not
\* interfere: the per-index invocations of each are passed its own captured
\* values and indices below its own size, and each outer Receiver is completed
\* only by its own operation.
C17_NoInterference == [](OwnEffects) /\ [][OwnSteps]_vars

\* C17 witness: two bulk operations with different sizes and different captured
\* values each have a per-index invocation running
C17_Witness ==
  \E o, q \in Ops :
    /\ o # q /\ kind[o] = "bulk" /\ kind[q] = "bulk"
    /\ scheduler_impl_[o] = scheduler_impl_[q]
    /\ running[o] # {} /\ running[q] # {}
    /\ size_[o] # size_[q]
    /\ prevResult[o].payload # prevResult[q].payload

(* ---------------------------------------------------------------------- *)
(* example::single_thread_context                                          *)
(* ---------------------------------------------------------------------- *)

\* manual_event_loop::finish(): asks run to return once the queue is drained
LoopFinish(l) == [l EXCEPT !.stop = TRUE]

\* manual_event_loop::run() returns when finish has been called and no task is
\* left in the queue
RunReturns(l) == l.stop /\ l.queue = << >>

\* the loop the thread function [this] { loop_.run(); } of context c runs
ThreadTarget(c) == c

\* mutant: the destructor joins the worker before it finishes the loop
DtorSteps_JoinFirst == <<"join", "finish">>

\* ~single_thread_context(): loop_.finish(); thread_.join();
DtorSteps == <<"finish", "join">>

\* the next call the destructor of c makes, or "done"
DtorNext(c) ==
  IF Len(dlog[c]) < Len(DtorSteps) THEN DtorSteps[Len(dlog[c]) + 1] ELSE "done"

\* single_thread_context(): loop_(), thread_([this] { loop_.run(); })
STCConstruct(c) ==
  /\ life[c] = "none"
  /\ life' = [life EXCEPT ![c] = "alive"]
  /\ loop_' = [loop_ EXCEPT ![c] = [stop |-> FALSE, queue |-> << >>, runner |-> "none"]]
  /\ thread_' = [thread_ EXCEPT ![c] = [st |-> "spawned", target |-> ThreadTarget(c)]]
  /\ UNCHANGED <<dlog, ran>>
  /\ UNCHANGED <<opVars, fault, facadeVars>>

\* the worker thread begins its function: loop_.run() is entered
WorkerEnter(c) ==
  /\ thread_[c].st = "spawned"
  /\ thread_' = [thread_ EXCEPT ![c].st = "running"]
  /\ loop_' = [loop_ EXCEPT ![thread_[c].target].runner = c]
  /\ UNCHANGED <<life, dlog, ran>>
  /\ UNCHANGED <<opVars, fault, facadeVars>>

\* get_scheduler() and a schedule on it: a task is pushed on loop_.  The
\* scheduler is used only during the lifetime of the context.
STCPost(c, t) ==
  /\ life[c] = "alive"
  /\ Len(loop_[c].queue) < MaxQueue
  /\ loop_' = [loop_ EXCEPT ![c].queue = Append(@, t)]
  /\ UNCHANGED <<life, thread_, dlog, ran>>
  /\ UNCHANGED <<opVars, fault, facadeVars>>

\* run() pops the front task and executes it on the calling thread
WorkerRunTask(c) ==
  /\ thread_[c].st = "running"
  /\ LET l == thread_[c].target IN
       /\ loop_[l].queue # << >>
       /\ ran' = [ran EXCEPT ![l] = [task |-> Head(loop_[l].queue), on |-> c]]
       /\ loop_' = [loop_ EXCEPT ![l].queue = Tail(@)]
  /\ UNCHANGED <<life, thread_, dlog>>
  /\ UNCHANGED <<opVars, fault, facadeVars>>

\* run() returns and the thread function with it
WorkerReturn(c) ==
  /\ thread_[c].st = "running"
  /\ RunReturns(loop_[thread_[c].target])
  /\ thread_' = [thread_ EXCEPT ![c].st = "returned"]
  /\ UNCHANGED <<life, loop_, dlog, ran>>
  /\ UNCHANGED <<opVars, fault, facadeVars>>

\* ~single_thread_context() is entered
DtorBegin(c) ==
  /\ life[c] = "alive"
  /\ life' = [life EXCEPT ![c] = "destroying"]
  /\ UNCHANGED <<loop_, thread_, dlog, ran>>
  /\ UNCHANGED <<opVars, fault, facadeVars>>

\* ~single_thread_context(): loop_.finish()
DtorFinish(c) ==
  /\ life[c] = "destroying"
  /\ DtorNext(c) = "finish"
  /\ loop_' = [loop_ EXCEPT ![c] = LoopFinish(@)]
  /\ dlog' = [dlog EXCEPT ![c] = Append(@, "finish")]
  /\ UNCHANGED <<life, thread_, ran>>
  /\ UNCHANGED <<opVars, fault, facadeVars>>

\* ~single_thread_context(): thread_.join() blocks until the thread function
\* has returned
DtorJoin(c) ==
  /\ life[c] = "destroying"
  /\ DtorNext(c) = "join"
  /\ thread_[c].st = "returned"
  /\ thread_' = [thread_ EXCEPT ![c].st = "joined"]
  /\ dlog' = [dlog EXCEPT ![c] = Append(@, "join")]
  /\ UNCHANGED <<life, loop_, ran>>
  /\ UNCHANGED <<opVars, fault, facadeVars>>

\* ~single_thread_context() returns; the members are destroyed
DtorEnd(c) ==
  /\ life[c] = "destroying"
  /\ DtorNext(c) = "done"
  /\ life' = [life EXCEPT ![c] = "destroyed"]
  /\ UNCHANGED <<loop_, thread_, dlog, ran>>
  /\ UNCHANGED <<opVars, fault, facadeVars>>

\* the steps the worker thread of c takes
WorkerStep(c) == WorkerEnter(c) \/ WorkerRunTask(c) \/ WorkerReturn(c)

\* the steps the thread destroying c takes once the destructor is entered
DtorStep(c) == DtorFinish(c) \/ DtorJoin(c) \/ DtorEnd(c)

NextLoop ==
  \/ \E c \in STCs : STCConstruct(c)
  \/ \E c \in STCs : WorkerEnter(c)
  \/ \E c \in STCs, t \in Tasks : STCPost(c, t)
  \/ \E c \in STCs : WorkerRunTask(c)
  \/ \E c \in STCs : WorkerReturn(c)
  \/ \E c \in STCs : DtorBegin(c)
  \/ \E c \in STCs : DtorFinish(c)
  \/ \E c \in STCs : DtorJoin(c)
  \/ \E c \in STCs : DtorEnd(c)

\* every runnable thread is eventually scheduled: the worker thread keeps
\* executing its function, and a destructor that was entered keeps executing
SpecLoop ==
  /\ Init
  /\ [][NextLoop]_vars
  /\ \A c \in STCs : WF_vars(WorkerStep(c)) /\ WF_vars(DtorStep(c))

(* ---------------------------------------------------------------------- *)
(* C18                                                                     *)
(* ---------------------------------------------------------------------- *)

\* a constructed context has a worker thread whose function is run of its own
\* loop, nothing else runs that loop, and its tasks execute on that thread
RunOnOwnWorker ==
  \A c \in STCs :
    /\ life[c] # "none" => (thread_[c].st # "none" /\ thread_[c].target = c)
    /\ loop_[c].runner \in {"none", c}
    /\ thread_[c].st \in {"running", "returned", "joined"} => loop_[c].runner = c
    /\ ran[c] # NoRan => ran[c].on = c

\* the destructor has called finish before it joins, and it has returned only
\* with the worker joined
FinishBeforeJoin ==
  \A c \in STCs :
    /\ dlog[c] \in {<< >>, <<"finish">>, <<"finish", "join">>}
    /\ thread_[c].st = "joined" => (loop_[c].stop /\ dlog[c] = <<"finish", "join">>)
    /\ life[c] = "destroyed" => thread_[c].st = "joined"

\* a destructor that was entered returns with the worker joined
DestructionTerminates ==
  \A c \in STCs :
    (life[c] = "destroying") ~> (life[c] = "destroyed" /\ thread_[c].st = "joined")

\* C18: a single_thread_context runs run of its loop on its own worker thread
\* from construction on; its destructor calls finish before join, never the
\* reverse; and, run returning after finish, a destruction that began ends with
\* the worker thread joined.
C18_FinishThenJoin ==
  /\ [](RunOnOwnWorker)
  /\ [](FinishBeforeJoin)
  /\ DestructionTerminates

\* C18 witness: a context whose worker executed a task was destroyed with its
\* worker joined, and another was destroyed although finish was called before
\* its worker had entered run
C18_Witness ==
  \E c, d \in STCs :
    /\ c # d
    /\ life[c] = "destroyed" /\ thread_[c].st = "joined" /\ ran[c] # NoRan
    /\ life[d] = "destroyed" /\ thread_[d].st = "joined" /\ ran[d] = NoRan

====
